---- MODULE Spec2Model ----
(***************************************************************************)
(* Model of the Illien journaling front end (App.tsx): the entry selector  *)
(* and debounced autosave state machine, its React effects, and the Tauri  *)
(* storage commands it invokes.                                            *)
(*                                                                         *)
(* One action is one turn of the JavaScript event loop: an event handler   *)
(* or an awaited continuation, followed by the re-render it causes and the *)
(* effects whose dependencies changed.  A storage command is in flight     *)
(* from invoke() until its response is delivered; the backend executes it  *)
(* at some point in between.                                               *)
(***************************************************************************)
EXTENDS Bags, FiniteSets, Integers, Sequences, TLC

VARIABLES
    content,           \* useState content: the buffer
    journalDirectory,  \* useState journalDirectory
    saveStatus,        \* useState saveStatus
    entries,           \* useState entries: the EntryList
    currentEntry,      \* useState currentEntry
    curFromList,       \* currentEntry is the very object held in entries
    newEntryTitle,     \* useState newEntryTitle: text of the new-entry modal
    booted,            \* the mount effect loadSettings has run
    timers,            \* live setTimeout handles of the debounce effect
    effectTimer,       \* handle the last debounce-effect run will clear
    loads,             \* load_journal commands in flight
    saves,             \* save_journal commands in flight
    lists,             \* list_journal_entries commands in flight
    deletes,           \* delete_journal commands in flight
    disk,              \* files of the journal directory
    ev,                \* the event handled by the last front-end step
    abandoned,         \* timers that were pending when the user left their entry
    deleted,           \* files deleted right after the confirmation, untouched since
    unedited,          \* how the open entry was opened, while nothing was typed
    pendingEdit,       \* the last edit, while nothing has superseded it
    intents,           \* number of user intents so far
    failures,          \* number of storage failures so far
    origin,            \* the texts typed into or loaded from each file so far
    theme              \* darkMode, settingsLoaded and the stored preference

vars == <<content, journalDirectory, saveStatus, entries, currentEntry,
          curFromList, newEntryTitle, booted, timers, effectTimer, loads,
          saves, lists, deletes, disk, ev, abandoned, deleted,
          unedited, pendingEdit, intents, failures, origin, theme>>

(***************************************************************************)
(* Bounds of the exploration.                                              *)
(***************************************************************************)
MaxIntents ==
    3
MaxInFlight ==
    2
MaxFailures ==
    1
MaxTitleLen ==
    3
MaxToggles ==
    2

(***************************************************************************)
(* Text is a sequence of one-character strings.                            *)
(***************************************************************************)
Whitespace ==
    {" ", "\t"}

Forbidden ==
    {"<", ">", ":", "\"", "/", "\\", "|", "?", "*"}

Md ==
    <<".", "m", "d">>

today ==
    <<"2", "0", "2", "6", "-", "0", "1", "-", "2", "0">>

todayFilename ==
    today \o Md

Digits ==
    {"0", "1", "2", "3", "4", "5", "6", "7", "8", "9"}

RECURSIVE TrimStart(_)
TrimStart(s) ==
    IF Len(s) > 0 /\ Head(s) \in Whitespace THEN TrimStart(Tail(s)) ELSE s

RECURSIVE TrimEnd(_)
TrimEnd(s) ==
    IF Len(s) > 0 /\ s[Len(s)] \in Whitespace
    THEN TrimEnd(SubSeq(s, 1, Len(s) - 1))
    ELSE s

\* A test of the raw title: nothing is trimmed.
NoTrim(s) ==
    s

Trim(s) ==
    TrimEnd(TrimStart(s))

\* A replace without the g flag: only the first match is replaced.
ReplaceFirstForbidden(s) ==
    [i \in 1..Len(s) |->
        IF s[i] \in Forbidden /\ \A j \in 1..(i - 1) : s[j] \notin Forbidden
        THEN "-" ELSE s[i]]

ReplaceForbidden(s) ==
    [i \in 1..Len(s) |-> IF s[i] \in Forbidden THEN "-" ELSE s[i]]

RECURSIVE CollapseWhitespace(_)
CollapseWhitespace(s) ==
    IF Len(s) = 0 THEN <<>>
    ELSE IF Head(s) \in Whitespace
         THEN <<" ">> \o CollapseWhitespace(TrimStart(Tail(s)))
         ELSE <<Head(s)>> \o CollapseWhitespace(Tail(s))

SanitizedTitle(title) ==
    CollapseWhitespace(ReplaceForbidden(Trim(title)))

Filename(title) ==
    SanitizedTitle(title) \o Md

(***************************************************************************)
(* Entries.  A JournalEntry is identified by its filename; title and date  *)
(* are display strings derived from it and are left out.                   *)
(***************************************************************************)
NoDir ==
    "null"

Directories ==
    {"D"}

NoEntry ==
    [filename |-> <<>>, entry_type |-> "null"]

TodayEntry ==
    [filename |-> todayFilename, entry_type |-> "daily"]

TitledEntry(title) ==
    [filename |-> Filename(title), entry_type |-> "titled"]

Texts ==
    {<<>>, <<"a">>, <<"b">>, <<" ">>}

NewEntryTitles ==
    {<<"n">>, <<" ">>, <<>>, today}

OldDailyFilename ==
    <<"2", "0", "2", "6", "-", "0", "1", "-", "1", "9">> \o Md

InitialDisks ==
    {[f \in {OldDailyFilename} |-> <<"b">>]}

(***************************************************************************)
(* Storage commands in flight.                                             *)
(***************************************************************************)
Pending ==
    "pending"

LoadCmd(filename) ==
    [filename |-> filename, res |-> Pending, text |-> <<>>]

SaveCmd(filename, text) ==
    [filename |-> filename, content |-> text, res |-> Pending]

ListCmd(thenToday) ==
    [res |-> Pending, data |-> {}, thenToday |-> thenToday]

DeleteCmd(filename) ==
    [filename |-> filename, res |-> Pending]

Add(bag, cmd) ==
    bag (+) SetToBag({cmd})

Remove(bag, cmd) ==
    bag (-) SetToBag({cmd})

InFlight ==
    BagCardinality(loads) + BagCardinality(saves)
        + BagCardinality(lists) + BagCardinality(deletes)

Event(op, filename, text, flag, n) ==
    [op |-> op, filename |-> filename, text |-> text, flag |-> flag, n |-> n]

Room(n) ==
    InFlight + n <= MaxInFlight

(***************************************************************************)
(* The initial render: every useState at its initial value, the mount      *)
(* effects have returned early because no directory is set.                *)
(***************************************************************************)
\* The theme at the initial render: darkMode is the OS colour scheme os,
\* and the Preference Store holds stored (no value, or one boolean).
ThemeStart(os, stored) ==
    [darkMode |-> os, settingsLoaded |-> FALSE, store |-> stored,
     writes |-> EmptyBag, pc |-> "get_journal_directory",
     atStart |-> stored, failed |-> FALSE, toggles |-> 0]

InitJournal ==
    /\ content = <<>>
    /\ journalDirectory = NoDir
    /\ saveStatus = "saved"
    /\ entries = {}
    /\ currentEntry = NoEntry
    /\ curFromList = FALSE
    /\ newEntryTitle = <<>>
    /\ booted = FALSE
    /\ timers = {}
    /\ effectTimer = {}
    /\ loads = EmptyBag
    /\ saves = EmptyBag
    /\ lists = EmptyBag
    /\ deletes = EmptyBag
    /\ disk \in InitialDisks
    /\ ev = Event("mount", <<>>, <<>>, FALSE, 0)
    /\ abandoned = {}
    /\ deleted = {}
    /\ unedited = "opened"
    /\ pendingEdit = {}
    /\ intents = 0
    /\ failures = 0
    /\ origin = {}

\* The journal on its own: the theme shares no state with it and is left at
\* its initial value.
Init ==
    /\ InitJournal
    /\ theme = ThemeStart(FALSE, {})

(***************************************************************************)
(* The effects of one render.                                              *)
(***************************************************************************)

\* The default-entry effect: a directory without a current entry opens today.
DefaultEntry(dir, entry) ==
    IF dir # NoDir /\ entry = NoEntry THEN TodayEntry ELSE entry

\* An effect without cleanup: the previous timer stays live.
KeepTimeout(live, handle) ==
    live

\* The timers left live by the cleanup of the previous debounce-effect run.
ClearTimeout(live, handle) ==
    live \ handle

\* A dependency array that leaves out currentEntry (and saveEntry).
DebounceDepsWithoutEntry(dirChanged, curChanged, textChanged) ==
    dirChanged \/ textChanged

\* The debounce effect's dependencies: content, journalDirectory,
\* currentEntry, saveEntry.
DebounceDeps(dirChanged, curChanged, textChanged) ==
    dirChanged \/ curChanged \/ textChanged

\* A timer closing over the saveEntry of the render before: saveEntry left
\* out of the dependency array.
SetTimeoutStale(dir, entry, text) ==
    IF dir = NoDir \/ entry = NoEntry
    THEN {}
    ELSE {[filename |-> entry.filename, content |-> content]}

\* The debounce effect's body: the timer it starts, closing over saveEntry.
SetTimeout(dir, entry, text) ==
    IF dir = NoDir \/ entry = NoEntry
    THEN {}
    ELSE {[filename |-> entry.filename, content |-> text]}

\* The number of storage commands a render with these values issues.
Issued(dir, entry, entryChanged) ==
    LET dirChanged == dir # journalDirectory
        cur == DefaultEntry(dir, entry)
        curChanged == entryChanged \/ cur # entry
    IN  (IF dirChanged /\ dir # NoDir THEN 1 ELSE 0)
        + (IF (dirChanged \/ curChanged) /\ dir # NoDir /\ cur # NoEntry
           THEN 1 ELSE 0)

\* A render with the given new state values, followed by its effects.
\* status is the saveStatus the handler set; ls and ld are the list and load
\* commands in flight after the handler ran.
Render(dir, entry, fromList, entryChanged, text, status, ls, ld) ==
    LET dirChanged == dir # journalDirectory
        cur == DefaultEntry(dir, entry)
        curChanged == entryChanged \/ cur # entry
        open == dir # NoDir /\ cur # NoEntry
        debounce == DebounceDeps(dirChanged, curChanged, text # content)
        started == SetTimeout(dir, cur, text)
    IN  /\ journalDirectory' = dir
        /\ currentEntry' = cur
        /\ curFromList' = (fromList /\ cur = entry)
        /\ content' = text
        /\ lists' = IF dirChanged /\ dir # NoDir
                    THEN Add(ls, ListCmd(FALSE)) ELSE ls
        /\ loads' = IF (dirChanged \/ curChanged) /\ open
                    THEN Add(ld, LoadCmd(cur.filename)) ELSE ld
        /\ timers' = IF debounce
                     THEN ClearTimeout(timers, effectTimer) \cup started
                     ELSE timers
        /\ effectTimer' = IF debounce THEN started ELSE effectTimer
        /\ saveStatus' = IF debounce /\ open THEN "unsaved" ELSE status

\* The timers the user leaves behind by opening the entry named filename.
Leave(filename) ==
    {t \in abandoned \cup
           (IF filename # currentEntry.filename THEN timers ELSE {}) :
        t.filename # filename}

(***************************************************************************)
(* Start-up and user intents.                                              *)
(***************************************************************************)

\* The mount effect: get_journal_directory answers stored (or null).
LoadSettings(stored) ==
    /\ ~booted
    /\ Room(Issued(IF stored # NoDir THEN stored ELSE journalDirectory,
                   currentEntry, FALSE))
    /\ booted' = TRUE
    /\ Render(IF stored # NoDir THEN stored ELSE journalDirectory,
              currentEntry, curFromList, FALSE, content, saveStatus,
              lists, loads)
    /\ ev' = Event("settings", <<>>, <<>>, stored # NoDir, 0)
    /\ pendingEdit' = {}
    /\ UNCHANGED <<entries, newEntryTitle, saves, deletes, disk, abandoned,
                   deleted, unedited, intents, failures, origin, theme>>

\* The directory dialog answers selected (or null when dismissed).
handleSelectDirectory(selected) ==
    /\ booted
    /\ intents < MaxIntents
    /\ Room(Issued(IF selected # NoDir THEN selected ELSE journalDirectory,
                   currentEntry, FALSE))
    /\ intents' = intents + 1
    /\ Render(IF selected # NoDir THEN selected ELSE journalDirectory,
              currentEntry, curFromList, FALSE, content, saveStatus,
              lists, loads)
    /\ ev' = Event("directory", <<>>, <<>>, selected # NoDir, 0)
    /\ pendingEdit' = IF selected # NoDir /\ selected # journalDirectory
                      THEN {} ELSE pendingEdit
    /\ UNCHANGED <<entries, newEntryTitle, booted, saves, deletes, disk,
                   abandoned, deleted, unedited, failures, origin, theme>>

\* The textarea's onChange: setContent(text).
Edit(text) ==
    /\ intents < MaxIntents
    /\ journalDirectory # NoDir
    /\ text # content
    /\ intents' = intents + 1
    /\ Render(journalDirectory, currentEntry, curFromList, FALSE, text,
              saveStatus, lists, loads)
    /\ ev' = Event("edit", <<>>, <<>>, FALSE,
                   IF ev.op = "edit" /\ ev.n < 2 THEN ev.n + 1
                   ELSE IF ev.op = "edit" THEN ev.n ELSE 1)
    /\ pendingEdit' = {[filename |-> currentEntry.filename, text |-> text]}
    /\ unedited' = "typed"
    /\ deleted' = deleted \ {currentEntry.filename}
    /\ origin' = origin \cup {[filename |-> currentEntry.filename,
                                text |-> text]}
    /\ UNCHANGED <<entries, newEntryTitle, booted, saves, deletes, disk,
                   abandoned, failures, theme>>

\* A sidebar button: setCurrentEntry(entry) with an object of the EntryList.
handleSelectEntry(entry) ==
    /\ intents < MaxIntents
    /\ journalDirectory # NoDir
    /\ entry \in entries
    /\ LET same == curFromList /\ entry = currentEntry
       IN  /\ Room(Issued(journalDirectory, entry, ~same))
           /\ Render(journalDirectory, entry, TRUE, ~same, content,
                     saveStatus, lists, loads)
           /\ ev' = Event("select", entry.filename, <<>>, same, 0)
    /\ intents' = intents + 1
    /\ abandoned' = Leave(entry.filename)
    /\ pendingEdit' = {}
    /\ unedited' = "opened"
    /\ UNCHANGED <<entries, newEntryTitle, booted, saves, deletes, disk,
                   deleted, failures, origin, theme>>

\* setCurrentEntry with a new object for today's daily entry.
GoToToday(status, ls) ==
    Render(journalDirectory, TodayEntry, FALSE, TRUE, content, status,
           ls, loads)

\* The Today button, shown while another entry is open.
handleGoToToday ==
    /\ intents < MaxIntents
    /\ currentEntry # NoEntry
    /\ currentEntry.filename # todayFilename
    /\ Room(Issued(journalDirectory, TodayEntry, TRUE))
    /\ intents' = intents + 1
    /\ GoToToday(saveStatus, lists)
    /\ ev' = Event("today", todayFilename, <<>>, FALSE, 0)
    /\ abandoned' = Leave(todayFilename)
    /\ pendingEdit' = {}
    /\ unedited' = "opened"
    /\ UNCHANGED <<entries, newEntryTitle, booted, saves, deletes, disk,
                   deleted, failures, origin, theme>>

\* The new-entry modal holding title: Create, or Enter.
handleCreateNewEntry(title) ==
    /\ journalDirectory # NoDir
    /\ IF Len(Trim(title)) = 0
       THEN /\ newEntryTitle' = title
            /\ ev' = Event("create", <<>>, title, FALSE, 0)
            /\ UNCHANGED <<content, journalDirectory, saveStatus,
                           currentEntry, curFromList, timers, effectTimer,
                           loads, lists, abandoned, deleted,
                           unedited, pendingEdit>>
       ELSE /\ Room(Issued(journalDirectory, TitledEntry(title), TRUE))
            /\ Render(journalDirectory, TitledEntry(title), FALSE, TRUE,
                      <<>>, saveStatus, lists, loads)
            /\ newEntryTitle' = <<>>
            /\ ev' = Event("create", Filename(title), title, TRUE, 0)
            /\ abandoned' = Leave(Filename(title))
            /\ deleted' = deleted \ {Filename(title)}
            /\ unedited' = "created"
            /\ pendingEdit' = {}
    /\ UNCHANGED <<entries, booted, saves, deletes, disk, failures,
                   origin, theme>>

\* The new-entry modal as the user fills and submits it.
CreateNewEntry(title) ==
    /\ intents < MaxIntents
    /\ intents' = intents + 1
    /\ handleCreateNewEntry(title)

\* A handler that deletes without asking.
DeleteUnconfirmed(confirmed) ==
    /\ journalDirectory # NoDir
    /\ currentEntry # NoEntry
    /\ currentEntry.entry_type # "daily"

\* The early returns of handleDeleteEntry.
DeleteGuard(confirmed) ==
    /\ journalDirectory # NoDir
    /\ currentEntry # NoEntry
    /\ currentEntry.entry_type # "daily"
    /\ confirmed

\* The delete button; confirmed is the answer to window.confirm.
handleDeleteEntry(confirmed) ==
    /\ intents < MaxIntents
    /\ intents' = intents + 1
    /\ ev' = Event("delete", currentEntry.filename, <<>>, confirmed, 0)
    /\ IF DeleteGuard(confirmed)
       THEN /\ Room(1)
            /\ deletes' = Add(deletes, DeleteCmd(currentEntry.filename))
            /\ pendingEdit' = {}
       ELSE UNCHANGED <<deletes, pendingEdit>>
    /\ UNCHANGED <<content, journalDirectory, saveStatus, entries,
                   currentEntry, curFromList, newEntryTitle, booted, timers,
                   effectTimer, loads, saves, lists, disk, abandoned,
                   deleted, unedited, failures, origin, theme>>

\* A debounce timer expires: saveEntry of the render that started it.
TimerFire(t) ==
    /\ t \in timers
    /\ Room(1)
    /\ timers' = timers \ {t}
    /\ saveStatus' = "saving"
    /\ saves' = Add(saves, SaveCmd(t.filename, t.content))
    /\ ev' = Event("timer", t.filename, t.content, FALSE,
                   IF ev.op = "edit" THEN ev.n ELSE 0)
    /\ UNCHANGED <<content, journalDirectory, entries, currentEntry,
                   curFromList, newEntryTitle, booted, effectTimer, loads,
                   lists, deletes, disk, abandoned, deleted,
                   unedited, pendingEdit, intents, failures, origin, theme>>

(***************************************************************************)
(* The storage backend (the Tauri commands) executing a command in flight. *)
(***************************************************************************)

\* A filename of the form YYYY-MM-DD.md.
IsDailyName(filename) ==
    /\ Len(filename) = 13
    /\ \A i \in {1, 2, 3, 4, 6, 7, 9, 10} : filename[i] \in Digits
    /\ filename[5] = "-"
    /\ filename[8] = "-"
    /\ SubSeq(filename, 11, 13) = Md

Descriptor(filename) ==
    [filename |-> filename,
     entry_type |-> IF IsDailyName(filename) THEN "daily" ELSE "titled"]

Fails(bag, cmd) ==
    /\ failures < MaxFailures
    /\ failures' = failures + 1
    /\ bag' = Add(Remove(bag, cmd), [cmd EXCEPT !.res = "fail"])

load_journal(cmd) ==
    /\ cmd \in BagToSet(loads)
    /\ cmd.res = Pending
    /\ \/ /\ loads' = Add(Remove(loads, cmd),
                          IF cmd.filename \in DOMAIN disk
                          THEN [cmd EXCEPT !.res = "text",
                                           !.text = disk[cmd.filename]]
                          ELSE [cmd EXCEPT !.res = "null"])
          /\ UNCHANGED failures
       \/ Fails(loads, cmd)
    /\ UNCHANGED <<content, journalDirectory, saveStatus, entries,
                   currentEntry, curFromList, newEntryTitle, booted, timers,
                   effectTimer, saves, lists, deletes, disk, ev, abandoned,
                   deleted, unedited, pendingEdit, intents, origin, theme>>

save_journal(cmd) ==
    /\ cmd \in BagToSet(saves)
    /\ cmd.res = Pending
    /\ \/ /\ saves' = Add(Remove(saves, cmd), [cmd EXCEPT !.res = "ok"])
          /\ disk' = [f \in DOMAIN disk \cup {cmd.filename} |->
                         IF f = cmd.filename THEN cmd.content ELSE disk[f]]
          /\ UNCHANGED failures
       \/ Fails(saves, cmd) /\ UNCHANGED disk
    /\ UNCHANGED <<content, journalDirectory, saveStatus, entries,
                   currentEntry, curFromList, newEntryTitle, booted, timers,
                   effectTimer, loads, lists, deletes, ev, abandoned,
                   deleted, unedited, pendingEdit, intents, origin, theme>>

list_journal_entries(cmd) ==
    /\ cmd \in BagToSet(lists)
    /\ cmd.res = Pending
    /\ \/ /\ lists' = Add(Remove(lists, cmd),
                          [cmd EXCEPT !.res = "ok",
                                      !.data = {Descriptor(f) :
                                                   f \in DOMAIN disk}])
          /\ UNCHANGED failures
       \/ Fails(lists, cmd)
    /\ UNCHANGED <<content, journalDirectory, saveStatus, entries,
                   currentEntry, curFromList, newEntryTitle, booted, timers,
                   effectTimer, loads, saves, deletes, disk, ev, abandoned,
                   deleted, unedited, pendingEdit, intents, origin, theme>>

\* Removing a file that does not exist is acknowledged or refused.
delete_journal(cmd) ==
    /\ cmd \in BagToSet(deletes)
    /\ cmd.res = Pending
    /\ \/ /\ deletes' = Add(Remove(deletes, cmd), [cmd EXCEPT !.res = "ok"])
          /\ disk' = [f \in DOMAIN disk \ {cmd.filename} |-> disk[f]]
          /\ deleted' = IF /\ cmd.filename \in DOMAIN disk
                           /\ ev.op = "delete"
                           /\ \A c \in BagToSet(saves) :
                                  c.filename = cmd.filename => c.res # Pending
                        THEN deleted \cup {cmd.filename} ELSE deleted
          /\ UNCHANGED failures
       \/ /\ cmd.filename \notin DOMAIN disk
          /\ deletes' = Add(Remove(deletes, cmd),
                            [cmd EXCEPT !.res = "fail"])
          /\ UNCHANGED <<disk, deleted, failures>>
       \/ Fails(deletes, cmd) /\ UNCHANGED <<disk, deleted>>
    /\ UNCHANGED <<content, journalDirectory, saveStatus, entries,
                   currentEntry, curFromList, newEntryTitle, booted, timers,
                   effectTimer, loads, saves, lists, ev, abandoned,
                   unedited, pendingEdit, intents, origin, theme>>

(***************************************************************************)
(* Responses: the continuations after each await.                          *)
(***************************************************************************)

\* loadEntry after its await.
LoadDone(cmd) ==
    /\ cmd \in BagToSet(loads)
    /\ cmd.res # Pending
    /\ IF cmd.res = "fail"
       THEN /\ loads' = Remove(loads, cmd)
            /\ ev' = Event("loadFail", cmd.filename, <<>>, FALSE, 0)
            /\ UNCHANGED <<content, journalDirectory, saveStatus,
                           currentEntry, curFromList, lists, timers,
                           effectTimer, origin>>
       ELSE /\ Render(journalDirectory, currentEntry, curFromList, FALSE,
                      cmd.text, "saved", lists, Remove(loads, cmd))
            /\ ev' = Event("load", cmd.filename, <<>>, cmd.res = "null", 0)
            /\ origin' = origin \cup {[filename |-> cmd.filename,
                                        text |-> cmd.text]}
    /\ UNCHANGED <<entries, newEntryTitle, booted, saves, deletes, disk,
                   abandoned, deleted, unedited, pendingEdit,
                   intents, failures, theme>>

\* A catch block that saves again at once.
SaveRetried(cmd) ==
    /\ saves' = Add(Remove(saves, cmd), SaveCmd(cmd.filename, cmd.content))
    /\ saveStatus' = "unsaved"

\* saveEntry's catch block.
SaveFailed(cmd) ==
    /\ saves' = Remove(saves, cmd)
    /\ saveStatus' = "unsaved"

\* saveEntry after its await.
SaveDone(cmd) ==
    /\ cmd \in BagToSet(saves)
    /\ cmd.res # Pending
    /\ IF cmd.res = "ok"
       THEN /\ saves' = Remove(saves, cmd)
            /\ saveStatus' = "saved"
            /\ lists' = IF Len(Trim(cmd.content)) # 0
                        THEN Add(lists, ListCmd(FALSE)) ELSE lists
            /\ ev' = Event("saved", cmd.filename, <<>>, FALSE, 0)
            /\ UNCHANGED pendingEdit
       ELSE /\ SaveFailed(cmd)
            /\ ev' = Event("saveFail", cmd.filename, <<>>, FALSE, 0)
            /\ pendingEdit' = {}
            /\ UNCHANGED lists
    /\ UNCHANGED <<content, journalDirectory, entries, currentEntry,
                   curFromList, newEntryTitle, booted, timers, effectTimer,
                   loads, deletes, disk, abandoned, deleted,
                   unedited, intents, failures, origin, theme>>

\* loadEntries after its await; the call awaited by handleDeleteEntry then
\* goes back to today.
ListDone(cmd) ==
    /\ cmd \in BagToSet(lists)
    /\ cmd.res # Pending
    /\ entries' = IF cmd.res = "ok" THEN cmd.data ELSE entries
    /\ IF cmd.thenToday
       THEN /\ GoToToday(saveStatus, Remove(lists, cmd))
            /\ ev' = Event("today", todayFilename, <<>>, TRUE, 0)
            /\ abandoned' = {t \in abandoned : t.filename # todayFilename}
            /\ pendingEdit' = {}
            /\ unedited' = "opened"
       ELSE /\ lists' = Remove(lists, cmd)
            /\ curFromList' = (curFromList /\ cmd.res # "ok")
            /\ ev' = Event("listed", <<>>, <<>>, cmd.res = "ok", 0)
            /\ UNCHANGED <<content, journalDirectory, saveStatus,
                           currentEntry, timers, effectTimer, loads,
                           abandoned, pendingEdit, unedited>>
    /\ UNCHANGED <<newEntryTitle, booted, saves, deletes, disk, deleted,
                   intents, failures, origin, theme>>

\* A handler that refreshes and goes back to today in a finally block.
DeleteFailedFinally(cmd) ==
    lists' = Add(lists, ListCmd(TRUE))

\* handleDeleteEntry's catch block.
DeleteFailed(cmd) ==
    UNCHANGED lists

\* handleDeleteEntry after awaiting delete_journal.
DeleteDone(cmd) ==
    /\ cmd \in BagToSet(deletes)
    /\ cmd.res # Pending
    /\ deletes' = Remove(deletes, cmd)
    /\ IF cmd.res = "ok"
       THEN /\ lists' = Add(lists, ListCmd(TRUE))
            /\ ev' = Event("deleteAck", <<>>, <<>>, TRUE, 0)
       ELSE /\ DeleteFailed(cmd)
            /\ ev' = Event("deleteFail", cmd.filename, <<>>, FALSE, 0)
    /\ UNCHANGED <<content, journalDirectory, saveStatus, entries,
                   currentEntry, curFromList, newEntryTitle, booted, timers,
                   effectTimer, loads, saves, disk, abandoned, deleted,
                   unedited, pendingEdit, intents, failures, origin, theme>>

Next ==
    \/ \E stored \in Directories \cup {NoDir} : LoadSettings(stored)
    \/ \E selected \in Directories \cup {NoDir} :
           handleSelectDirectory(selected)
    \/ \E text \in Texts : Edit(text)
    \/ \E entry \in entries : handleSelectEntry(entry)
    \/ handleGoToToday
    \/ \E title \in NewEntryTitles : CreateNewEntry(title)
    \/ \E confirmed \in BOOLEAN : handleDeleteEntry(confirmed)
    \/ \E t \in timers : TimerFire(t)
    \/ \E cmd \in BagToSet(loads) : load_journal(cmd)
    \/ \E cmd \in BagToSet(loads) : LoadDone(cmd)
    \/ \E cmd \in BagToSet(saves) : save_journal(cmd)
    \/ \E cmd \in BagToSet(saves) : SaveDone(cmd)
    \/ \E cmd \in BagToSet(lists) : list_journal_entries(cmd)
    \/ \E cmd \in BagToSet(lists) : ListDone(cmd)
    \/ \E cmd \in BagToSet(deletes) : delete_journal(cmd)
    \/ \E cmd \in BagToSet(deletes) : DeleteDone(cmd)

Spec ==
    Init /\ [][Next]_vars

(***************************************************************************)
(* The title sanitization on its own: the idle application with the       *)
(* new-entry modal holding any short title, and the user submitting it.    *)
(***************************************************************************)
TitleAlphabet ==
    {"a", " ", "\t", ":", "?"}

GoldenTitle ==
    <<"M", "y", ":", " ", "T", "r", "i", "p", "/", "N", "o", "t", "e", "s",
      "?">>

GoldenFilename ==
    <<"M", "y", "-", " ", "T", "r", "i", "p", "-", "N", "o", "t", "e", "s",
      "-", ".", "m", "d">>

TitleInputs ==
    UNION {[1..n -> TitleAlphabet] : n \in 0..MaxTitleLen} \cup {GoldenTitle}

\* The application at rest after start-up: today's entry open and flushed.
Idle ==
    /\ content = <<>>
    /\ journalDirectory = "D"
    /\ saveStatus = "saved"
    /\ entries = {Descriptor(OldDailyFilename)}
    /\ currentEntry = TodayEntry
    /\ curFromList = FALSE
    /\ booted = TRUE
    /\ timers = {}
    /\ effectTimer = SetTimeout("D", TodayEntry, <<>>)
    /\ loads = EmptyBag
    /\ saves = EmptyBag
    /\ lists = EmptyBag
    /\ deletes = EmptyBag
    /\ disk = [f \in {OldDailyFilename, todayFilename} |->
                  IF f = todayFilename THEN <<>> ELSE <<"b">>]
    /\ abandoned = {}
    /\ deleted = {}
    /\ unedited = "opened"
    /\ pendingEdit = {}
    /\ intents = 0
    /\ failures = 0
    /\ origin = {[filename |-> todayFilename, text |-> <<>>]}
    /\ theme = ThemeStart(FALSE, {})

InitSanitize ==
    /\ Idle
    /\ newEntryTitle \in TitleInputs
    /\ ev = Event("saved", todayFilename, <<>>, FALSE, 0)

SubmitTitle ==
    /\ handleCreateNewEntry(newEntryTitle)
    /\ UNCHANGED intents

NextSanitize ==
    SubmitTitle

SpecSanitize ==
    InitSanitize /\ [][NextSanitize]_vars

(***************************************************************************)
(* The theme on its own: a start-up without a stored journal directory,    *)
(* so that the journal stays at its initial state.  loadSettings reads the *)
(* directory, then the stored darkMode; the dark-mode effect invokes       *)
(* set_dark_mode with darkMode once settingsLoaded is set, and the         *)
(* Preference Store executes the commands in flight.                       *)
(***************************************************************************)
journal ==
    <<content, journalDirectory, saveStatus, entries, currentEntry,
      curFromList, newEntryTitle, booted, timers, effectTimer, loads,
      saves, lists, deletes, disk, ev, abandoned, deleted, unedited,
      pendingEdit, intents, failures, origin>>

\* The set_dark_mode commands in flight after the dark-mode effect of a
\* render with the new values dark and loaded: one is invoked when a
\* dependency changed and settingsLoaded is set.
SetDarkMode(dark, loaded) ==
    IF loaded /\ (dark # theme.darkMode \/ loaded # theme.settingsLoaded)
    THEN Add(theme.writes, dark)
    ELSE theme.writes

\* loadSettings reaches setSettingsLoaded(true) with darkMode as dark;
\* caught tells whether it came through the catch block.
SettingsLoaded(dark, caught) ==
    theme' = [theme EXCEPT !.darkMode = dark,
                           !.settingsLoaded = TRUE,
                           !.writes = SetDarkMode(dark, TRUE),
                           !.pc = "done",
                           !.failed = caught]

\* get_journal_directory answers that no directory is stored, or throws.
GetJournalDirectory(ok) ==
    /\ theme.pc = "get_journal_directory"
    /\ IF ok
       THEN theme' = [theme EXCEPT !.pc = "get_dark_mode"]
       ELSE SettingsLoaded(theme.darkMode, TRUE)
    /\ UNCHANGED journal

\* get_dark_mode answers the stored value (or null), or throws.
GetDarkMode(ok) ==
    /\ theme.pc = "get_dark_mode"
    /\ IF ok /\ theme.store # {}
       THEN SettingsLoaded(CHOOSE saved \in theme.store : TRUE, FALSE)
       ELSE SettingsLoaded(theme.darkMode, ~ok)
    /\ UNCHANGED journal

\* The theme button: setDarkMode(!darkMode).
ToggleDarkMode ==
    /\ theme.toggles < MaxToggles
    /\ theme' = [theme EXCEPT
                    !.darkMode = ~theme.darkMode,
                    !.writes = SetDarkMode(~theme.darkMode,
                                           theme.settingsLoaded),
                    !.toggles = theme.toggles + 1]
    /\ UNCHANGED journal

\* The Preference Store executes a set_dark_mode in flight.
set_dark_mode(dark) ==
    /\ dark \in BagToSet(theme.writes)
    /\ theme' = [theme EXCEPT !.store = {dark},
                              !.writes = Remove(theme.writes, dark)]
    /\ UNCHANGED journal

InitTheme ==
    /\ InitJournal
    /\ \E os \in BOOLEAN, stored \in {{}, {TRUE}, {FALSE}} :
           theme = ThemeStart(os, stored)

NextTheme ==
    \/ \E ok \in BOOLEAN : GetJournalDirectory(ok)
    \/ \E ok \in BOOLEAN : GetDarkMode(ok)
    \/ ToggleDarkMode
    \/ \E dark \in BOOLEAN : set_dark_mode(dark)

SpecTheme ==
    InitTheme /\ [][NextTheme]_vars

(***************************************************************************)
(* Properties.                                                             *)
(***************************************************************************)

\* Nothing is pending: no timer is live and no storage command is in flight.
Quiescent ==
    timers = {} /\ InFlight = 0

\* C1: once an edit to the open entry is followed by no further edit, no
\* entry switch and no failed save, and everything has come to rest, the
\* storage holds exactly the edited text under the entry's filename and
\* SaveStatus reads saved.
C1_AutosavePersistsEdit ==
    \A e \in pendingEdit :
        Quiescent =>
            /\ e.filename \in DOMAIN disk
            /\ disk[e.filename] = e.text
            /\ saveStatus = "saved"

\* C2: a debounce timer that expires issues save_journal with the buffer as
\* it is then (the final buffer of the burst of edits before it, never an
\* intermediate one), and leaves no second timer behind to flush again.
C2_DebounceCoalesces ==
    ev.op = "timer" =>
        /\ ev.text = content
        /\ ev.filename = currentEntry.filename
        /\ timers = {}

\* A timer expired right after a burst of two or more consecutive edits.
C2_Witness ==
    /\ ev.op = "timer"
    /\ ev.n >= 2
    /\ ev.text = content
    /\ BagCardinality(saves) = 1

C4_AbsentLoadYieldsSaved ==
    (/\ ev.op = "load"
     /\ ev.flag
     /\ ev.filename = currentEntry.filename
     /\ unedited # "typed")
        => (content = <<>> /\ saveStatus = "saved")

\* C5: a file removed by a successful delete_journal, executed right after
\* the confirmation while no save of that file was waiting, stays absent
\* from the storage until the user creates the entry again or types into it.
C5_DeletedStaysAbsent ==
    \A f \in deleted : f \notin DOMAIN disk

\* C6: delete_journal is invoked only by a confirmed delete of a titled
\* entry; a delete intent on a daily entry, or a declined confirmation,
\* invokes nothing and leaves current entry, buffer and EntryList unchanged.
C6_DeleteOnlyTitledConfirmed ==
    [][/\ BagCardinality(deletes') > BagCardinality(deletes)
          => /\ intents' # intents
             /\ ev'.op = "delete"
             /\ ev'.flag
             /\ currentEntry.entry_type = "titled"
             /\ deletes' = Add(deletes, DeleteCmd(currentEntry.filename))
       /\ (/\ intents' # intents
           /\ ev'.op = "delete"
           /\ (~ev'.flag \/ currentEntry.entry_type = "daily"))
          => UNCHANGED <<deletes, currentEntry, content, entries, disk,
                         saveStatus, timers>>]_vars

\* The user declined to delete the titled entry that is open.
C6_Witness ==
    /\ ev.op = "delete"
    /\ ~ev.flag
    /\ currentEntry.entry_type = "titled"
    /\ deletes = EmptyBag

\* The words of a title: its maximal runs of characters that are not
\* whitespace.
RECURSIVE Words(_)
Words(s) ==
    IF Len(s) = 0 THEN <<>>
    ELSE IF s[1] \in Whitespace THEN Words(SubSeq(s, 2, Len(s)))
    ELSE LET k == CHOOSE k \in 1..Len(s) :
                      /\ \A i \in 1..k : s[i] \notin Whitespace
                      /\ k = Len(s) \/ s[k + 1] \in Whitespace
         IN  <<SubSeq(s, 1, k)>> \o Words(SubSeq(s, k + 1, Len(s)))

RECURSIVE Joined(_)
Joined(words) ==
    IF Len(words) = 0 THEN <<>>
    ELSE IF Len(words) = 1 THEN words[1]
    ELSE words[1] \o <<" ">> \o Joined(SubSeq(words, 2, Len(words)))

\* r is w with each disallowed character replaced one for one by "-".
Dashed(w, r) ==
    /\ Len(r) = Len(w)
    /\ \A i \in 1..Len(w) :
           r[i] = (IF w[i] \in {"<", ">", ":", "\"", "/", "\\", "|", "?", "*"}
                   THEN "-" ELSE w[i])

\* C7: a submitted title is accepted exactly when it is not blank, and the
\* filename of the entry it opens is the title's words, each disallowed
\* character replaced one for one by "-", joined by single spaces and
\* followed by ".md"; My: Trip/Notes? gives My- Trip-Notes-.md.
C7_SanitizedFilename ==
    ev.op = "create" =>
        LET title == ev.text
            name == currentEntry.filename
            stem == SubSeq(name, 1, Len(name) - 3)
        IN  /\ ev.flag = (Len(Words(title)) > 0)
            /\ ev.flag =>
                   /\ currentEntry.entry_type = "titled"
                   /\ Len(name) > 3
                   /\ SubSeq(name, Len(name) - 2, Len(name)) = <<".", "m", "d">>
                   /\ Len(Words(stem)) = Len(Words(title))
                   /\ \A i \in 1..Len(Words(title)) :
                          Dashed(Words(title)[i], Words(stem)[i])
                   /\ stem = Joined(Words(stem))
                   /\ title = GoldenTitle => name = GoldenFilename

\* The golden title was submitted and opened its entry.
C7_Witness ==
    /\ ev.op = "create"
    /\ ev.text = GoldenTitle
    /\ currentEntry.filename = GoldenFilename

\* C8: no save_journal is issued for a newly created entry before the user
\* has typed into it.
C8_NoSaveBeforeFirstEdit ==
    ~(/\ ev.op = "timer"
      /\ unedited = "created"
      /\ ev.filename = currentEntry.filename)

\* C9: the completion of a failed save_journal sets SaveStatus to unsaved,
\* leaves the buffer alone, starts no timer and issues no command; and a
\* save_journal is only ever issued by the expiry of a live debounce timer.
C9_FailedSaveNotRetried ==
    [][/\ \A cmd \in BagToSet(saves) :
              (cmd.res = "fail" /\ CopiesIn(cmd, saves') < CopiesIn(cmd, saves))
                  => /\ saveStatus' = "unsaved"
                     /\ saves' = Remove(saves, cmd)
                     /\ UNCHANGED <<content, currentEntry, timers, loads,
                                    lists, deletes, disk>>
       /\ \A cmd \in BagToSet(saves') :
              (cmd.res = Pending /\ CopiesIn(cmd, saves') > CopiesIn(cmd, saves))
                  => \E t \in timers :
                         /\ t \notin timers'
                         /\ cmd = SaveCmd(t.filename, t.content)
                         /\ saves' = Add(saves, cmd)]_vars

\* A save failed and nothing is left to save again: no timer, no command.
C9_Witness ==
    /\ ev.op = "saveFail"
    /\ saveStatus = "unsaved"
    /\ Len(content) > 0
    /\ Quiescent

\* C10: when load_journal fails for the entry just opened and the user has
\* typed nothing since, the buffer is empty afterwards.
C10_FailedLoadEmptiesBuffer ==
    (/\ ev.op = "loadFail"
     /\ ev.filename = currentEntry.filename
     /\ unedited # "typed")
        => content = <<>>

\* The number of save_journal commands for filename that the backend has
\* not executed yet.
WaitingSaves(filename) ==
    BagCardinality([c \in {d \in BagToSet(saves) :
                              d.filename = filename /\ d.res = Pending}
                       |-> CopiesIn(c, saves)])

\* C11: a second save_journal for a filename is never issued while an
\* earlier save_journal for that filename is still waiting to be executed.
C11_NoConcurrentSaves ==
    \A c \in BagToSet(saves) : WaitingSaves(c.filename) <= 1

\* C12: a current entry whose filename has the daily form YYYY-MM-DD.md has
\* entry_type daily, and delete_journal is never invoked with a filename of
\* the daily form.
C12_DailyNameIsDaily ==
    /\ IsDailyName(currentEntry.filename) => currentEntry.entry_type = "daily"
    /\ \A c \in BagToSet(deletes) : ~IsDailyName(c.filename)

\* C13: the content of every save_journal issued for a filename is text that
\* was loaded from that file or typed while it was the current entry, or
\* is empty for a file that does not exist.
C13_NoCrossEntryContamination ==
    [][\A cmd \in BagToSet(saves') :
           (cmd.res = Pending /\ CopiesIn(cmd, saves') > CopiesIn(cmd, saves))
               => \/ [filename |-> cmd.filename, text |-> cmd.content]
                         \in origin
                  \/ cmd.content = <<>> /\ cmd.filename \notin DOMAIN disk]_vars

\* The text the storage holds for filename; an absent file reads as empty.
Stored(filename) ==
    IF filename \in DOMAIN disk THEN disk[filename] ELSE <<>>

\* C14: whenever SaveStatus reads saved, the last edit, if it is still what
\* the buffer of its entry holds, is what the storage holds for that entry.
C14_SavedIsTruthful ==
    saveStatus = "saved" =>
        \A e \in pendingEdit :
            (e.filename = currentEntry.filename /\ e.text = content)
                => Stored(e.filename) = content

\* C15: the completion, successful or failed, of a save_journal issued for
\* an entry that is no longer the current one leaves SaveStatus as it was.
C15_SwitchDiscardsSaveStatus ==
    [][\A cmd \in BagToSet(saves) :
           (/\ cmd.res # Pending
            /\ CopiesIn(cmd, saves') < CopiesIn(cmd, saves)
            /\ cmd.filename # currentEntry.filename)
               => saveStatus' = saveStatus]_vars

C18_NonEmptySaveRefreshes ==
    [][\A cmd \in BagToSet(saves) :
           (/\ cmd.res = "ok"
            /\ CopiesIn(cmd, saves') < CopiesIn(cmd, saves)
            /\ Len(cmd.content) > 0)
               => lists' = Add(lists, ListCmd(FALSE))]_vars

\* C19: with no debounce timer pending, no storage command in flight and
\* SaveStatus saved, the storage holds the buffer under the current entry's
\* filename (an absent file reads as empty).
C19_QuiescentConsistency ==
    (/\ currentEntry # NoEntry
     /\ Quiescent
     /\ saveStatus = "saved")
        => Stored(currentEntry.filename) = content

\* C20: the response of a load_journal issued for an entry that is no
\* longer the current one leaves the buffer as it is.
C20_LastSwitchWins ==
    [][\A cmd \in BagToSet(loads) :
           (/\ cmd.res # Pending
            /\ CopiesIn(cmd, loads') < CopiesIn(cmd, loads)
            /\ cmd.filename # currentEntry.filename)
               => content' = content]_vars

\* C21: selecting in the sidebar the entry whose filename is already open
\* issues no load_journal.
C21_ReselectDoesNotReload ==
    [][(/\ intents' # intents
        /\ ev'.op = "select"
        /\ ev'.filename = currentEntry.filename)
           => loads' = loads]_vars

\* C22: submitting a title that is empty or only whitespace changes neither
\* the current entry, the buffer, SaveStatus, the pending timer, the
\* EntryList nor the storage, and issues no storage command.
C22_BlankTitleRejected ==
    [][(/\ intents' # intents
        /\ ev'.op = "create"
        /\ \A i \in 1..Len(ev'.text) : ev'.text[i] \in {" ", "\t"})
           => UNCHANGED <<currentEntry, content, saveStatus, timers,
                          effectTimer, entries, disk, loads, saves, lists,
                          deletes>>]_vars

\* A whitespace-only title was submitted while a debounce timer was pending
\* for typed text, and the timer is still pending.
C22_Witness ==
    /\ ev.op = "create"
    /\ Len(ev.text) > 0
    /\ ~ev.flag
    /\ \E t \in timers : Len(t.content) > 0
    /\ saveStatus = "unsaved"

\* C23: the failure of delete_journal leaves the current entry, the buffer,
\* the EntryList, SaveStatus, the timer and the storage as they were, and
\* issues no list_journal_entries and no other command.
C23_FailedDeleteSwallowed ==
    [][\A cmd \in BagToSet(deletes) :
           (cmd.res = "fail" /\ CopiesIn(cmd, deletes') < CopiesIn(cmd, deletes))
               => /\ deletes' = Remove(deletes, cmd)
                  /\ UNCHANGED <<currentEntry, content, entries, saveStatus,
                                 timers, lists, loads, saves, disk>>]_vars

\* The failure of delete_journal has been handled: the titled entry is
\* still open with its text, and nothing is in flight.
C23_Witness ==
    /\ ev.op = "deleteFail"
    /\ currentEntry.entry_type = "titled"
    /\ currentEntry.filename = ev.filename
    /\ Len(content) > 0
    /\ InFlight = 0

\* C24: when the Preference Store holds a darkMode value at start-up and
\* the user has not toggled the theme, the store keeps that value, and it
\* is the theme in effect once the settings have been read.
C24_StoredThemeWins ==
    (theme.atStart # {} /\ theme.toggles = 0)
        => /\ theme.store = theme.atStart
           /\ (theme.settingsLoaded /\ ~theme.failed)
                  => {theme.darkMode} = theme.atStart

====
